---- MODULE Spec2Model ----
(***************************************************************************)
(* DynamicAutoDiffCostFunction<CostFunctor, Stride>::Evaluate              *)
(* (include/ceres/dynamic_autodiff_cost_function.h), modelled as a state   *)
(* machine that steps through one Evaluate call; the engine's ownership of  *)
(* its functor; and MapValuesToContiguousRange (internal/ceres/             *)
(* array_utils.cc).                                                        *)
(*                                                                         *)
(* Doubles are modelled as integers: every value the model computes is a   *)
(* small integer, on which double arithmetic is exact.  C++ indices are    *)
(* 0-based and kept 0-based in the locals; TLA+ sequences are 1-based, so  *)
(* every access adds one.                                                  *)
(***************************************************************************)
EXTENDS Integers, Sequences, FiniteSets, TLC

\* Bounds of the model.
MaxBlocks == 3
MaxParameters == 7
MaxResiduals == 2

\* template <typename CostFunctor, int Stride = 4>
DefaultStride == 4

VARIABLES
  call,         \* the engine's configuration and the arguments of the Evaluate call
  ev,           \* the activation of Evaluate: position, locals, caller's buffers
  session,      \* the calls made so far on the engine of call
  engines,      \* the DynamicAutoDiffCostFunction objects: functor_, ownership_
  functors,     \* the cost functor objects on the heap
  array,        \* the int array handed to MapValuesToContiguousRange
  source,       \* the content of array before the first application
  applications  \* the number of applications of MapValuesToContiguousRange

vars == <<call, ev, session, engines, functors, array, source, applications>>

\* What a step of Evaluate leaves alone besides call.
aside == <<session, engines, functors, array, source, applications>>

\* The values of the variables a specification does not use.
NoCall == [parameter_block_sizes |-> <<>>]
NoEv == [pc |-> "done"]
NoSession == [repeated |-> FALSE]
NoEngines == <<>>
NoFunctors == <<>>
NoArray == <<>>

EngineAside ==
  /\ engines = NoEngines
  /\ functors = NoFunctors

ArrayAside ==
  /\ array = NoArray
  /\ source = NoArray
  /\ applications = 0

----------------------------------------------------------------------------
\* Generic helpers.

RECURSIVE SeqSum(_)
SeqSum(s) == IF s = <<>> THEN 0 ELSE Head(s) + SeqSum(Tail(s))

Zeros(n) == [d \in 1..n |-> 0]

RECURSIVE SeqsOver(_, _)
\* All sequences of length n over the set S.
SeqsOver(S, n) ==
  IF n = 0 THEN {<<>>}
  ELSE {Append(s, x) : s \in SeqsOver(S, n - 1), x \in S}

\* Flattened start offset (0-based) of block i (1-based) in a size sequence.
BlockStart(sizes, i) == SeqSum(SubSeq(sizes, 1, i - 1))

\* The content of a caller's buffer before Evaluate writes it.  The caller
\* allocates the buffers without initialising them and Evaluate never reads
\* them, so one value that no computation of the model produces stands for
\* "not written".
Unwritten == -1

----------------------------------------------------------------------------
\* Jet<double, Stride>: a primal a and a derivative vector v of length Stride.

Jet(a, v) == [a |-> a, v |-> v]

JetZero(width) == Jet(0, Zeros(width))

\* T(c) for T = Jet: a constant has a zero derivative vector.
JetScalar(c, width) == Jet(c, Zeros(width))

JetAdd(f, g) == Jet(f.a + g.a, [d \in DOMAIN f.v |-> f.v[d] + g.v[d]])

\* Product rule.
JetMul(f, g) ==
  Jet(f.a * g.a, [d \in DOMAIN f.v |-> f.a * g.v[d] + f.v[d] * g.a])

RECURSIVE JetSum(_, _)
JetSum(s, width) ==
  IF s = <<>> THEN JetZero(width) ELSE JetAdd(Head(s), JetSum(Tail(s), width))

----------------------------------------------------------------------------
\* The function contract: a cost functor templated on the numeric kind T,
\*   residuals[k] = sum over blocks i, offsets j of T(k + j + 1) * p[i][j]^2
\* (k, j 0-based).  The same expression is instantiated for T = double and
\* for T = Jet.

\* The pairs <<i, j>> (block 1-based, offset 0-based) in parameter order.
RECURSIVE PositionsFrom(_, _)
PositionsFrom(sizes, i) ==
  IF i > Len(sizes) THEN <<>>
  ELSE [j \in 1..sizes[i] |-> <<i, j - 1>>] \o PositionsFrom(sizes, i + 1)

Positions(sizes) == PositionsFrom(sizes, 1)

\* T = double; parameters[i][j] is params[i][j + 1].
FunctorPlain(sizes, nres, params) ==
  LET pos == Positions(sizes)
  IN  [k \in 1..nres |->
         SeqSum([q \in 1..Len(pos) |->
            LET i == pos[q][1]
                j == pos[q][2]
            IN  ((k - 1) + j + 1) * params[i][j + 1] * params[i][j + 1]])]

\* T = Jet; parameters[i] points at jets[jet_parameters[i]], so
\* parameters[i][j] is jets[jet_parameters[i] + j + 1].
FunctorJet(sizes, nres, jet_parameters, jets, width) ==
  LET pos == Positions(sizes)
  IN  [k \in 1..nres |->
         JetSum([q \in 1..Len(pos) |->
            LET i == pos[q][1]
                j == pos[q][2]
                x == jets[jet_parameters[i] + j + 1]
            IN  JetMul(JetMul(JetScalar((k - 1) + j + 1, width), x), x)], width)]

\* The partial derivative of residual k with respect to parameter j of a
\* block holding value x there (k, j 0-based): d/dx (k + j + 1) x^2.
Partial(k, j, x) == 2 * (k + j + 1) * x

\* TwoParameterBlockFunctor of the tests,
\*   residuals[0] = x1[0] * x1[0] + x2[0] * x2[0]
\*   residuals[1] = x1[1] * x1[1] + x2[1] * x2[1]
\* with x1 = parameters[0] and x2 = parameters[1]; it always returns true.
TwoParameterBlockPlain(params) ==
  LET x1 == params[1]
      x2 == params[2]
  IN  <<x1[1] * x1[1] + x2[1] * x2[1],
        x1[2] * x1[2] + x2[2] * x2[2]>>

TwoParameterBlockJet(jet_parameters, jets) ==
  LET x1(j) == jets[jet_parameters[1] + j + 1]
      x2(j) == jets[jet_parameters[2] + j + 1]
  IN  <<JetAdd(JetMul(x1(0), x1(0)), JetMul(x2(0), x2(0))),
        JetAdd(JetMul(x1(1), x1(1)), JetMul(x2(1), x2(1)))>>

\* (*functor_)(parameters, residuals) for the functor the engine c holds.
Invoke_double(c) ==
  IF c.functor = "TwoParameterBlockFunctor"
  THEN TwoParameterBlockPlain(c.parameters)
  ELSE FunctorPlain(c.parameter_block_sizes, c.num_residuals, c.parameters)

\* (*functor_)(&jet_parameters[0], &output_jets[0])
Invoke_Jet(c, s) ==
  IF c.functor = "TwoParameterBlockFunctor"
  THEN TwoParameterBlockJet(s.jet_parameters, s.input_jets)
  ELSE FunctorJet(c.parameter_block_sizes, c.num_residuals,
                  s.jet_parameters, s.input_jets, c.Stride)

----------------------------------------------------------------------------
\* The Evaluate call.  c is the call (engine configuration and arguments),
\* s the activation.  Fields of c:
\*   parameter_block_sizes, num_residuals  the engine's sizing
\*   Stride                                the template parameter
\*   parameters                            parameters[i][j], the caller's values
\*   jacobians_null                        jacobians == nullptr
\*   requested                             requested[i] iff jacobians[i] != nullptr

NumBlocks(c) == Len(c.parameter_block_sizes)

NumParameters(c) == SeqSum(c.parameter_block_sizes)

Terminal == {"done"}

\* The activation on entry: nothing allocated, the caller's buffers unwritten.
\* The fields after jacobians are history the code does not hold: counts of
\* invocations, seedings and writes, and the pass and slot of each seeding.
InitEv(c) ==
  [pc |-> "begin",
   ret |-> "pending",
   i |-> 0,
   j |-> 0,
   parameter_cursor |-> 0,
   scatter_parameter_cursor |-> 0,
   num_active_parameters |-> 0,
   start_derivative_section |-> <<>>,
   in_derivative_section |-> FALSE,
   jet_parameters |-> <<>>,
   num_strides |-> 0,
   pass |-> 0,
   current_derivative_section |-> 0,
   current_derivative_section_cursor |-> 0,
   initial_derivative_section |-> 0,
   initial_derivative_section_cursor |-> 0,
   active_parameter_count |-> 0,
   input_jets |-> <<>>,
   output_jets |-> <<>>,
   residuals |-> [k \in 1..c.num_residuals |-> Unwritten],
   jacobians |->
     [i \in 1..NumBlocks(c) |->
        IF c.requested[i]
        THEN [o \in 1..(c.num_residuals * c.parameter_block_sizes[i]) |-> Unwritten]
        ELSE <<>>],
   invocations |-> 0,
   direct_invocations |-> 0,
   failed_invocations |-> 0,
   residual_writes |-> 0,
   seed_count |-> [p \in 1..NumParameters(c) |-> 0],
   seed_pass |-> [p \in 1..NumParameters(c) |-> 0],
   seed_slot |-> [p \in 1..NumParameters(c) |-> 0],
   write_count |->
     [i \in 1..NumBlocks(c) |->
        IF c.requested[i]
        THEN [o \in 1..(c.num_residuals * c.parameter_block_sizes[i]) |-> 0]
        ELSE <<>>],
   write_pass |->
     [i \in 1..NumBlocks(c) |->
        IF c.requested[i]
        THEN [o \in 1..(c.num_residuals * c.parameter_block_sizes[i]) |-> 0]
        ELSE <<>>],
   bad_write |-> FALSE]

Return(s, r) == [s EXCEPT !.pc = "done", !.ret = r]

\* Variant of BeginStep: the residual count is checked after the
\* jacobians == nullptr branch.
BeginStepLateCheck(c, s) ==
  IF c.jacobians_null THEN [s EXCEPT !.pc = "direct"]
  ELSE IF ~(c.num_residuals > 0) THEN Return(s, "abort")
  ELSE [s EXCEPT
          !.pc = "discover",
          !.input_jets = [p \in 1..NumParameters(c) |-> JetZero(c.Stride)],
          !.output_jets = [k \in 1..c.num_residuals |-> JetZero(c.Stride)],
          !.jet_parameters = [i \in 1..NumBlocks(c) |-> 0],
          !.num_active_parameters = 0,
          !.start_derivative_section = <<>>,
          !.in_derivative_section = FALSE,
          !.parameter_cursor = 0,
          !.i = 0]

\* Variant of BeginStep: the section bookkeeping is not started afresh, as
\* if it were kept in the engine from one call to the next.
BeginStepKeepingSections(c, s) ==
  IF ~(c.num_residuals > 0) THEN Return(s, "abort")
  ELSE IF c.jacobians_null THEN [s EXCEPT !.pc = "direct"]
  ELSE [s EXCEPT
          !.pc = "discover",
          !.input_jets = [p \in 1..NumParameters(c) |-> JetZero(c.Stride)],
          !.output_jets = [k \in 1..c.num_residuals |-> JetZero(c.Stride)],
          !.jet_parameters = [i \in 1..NumBlocks(c) |-> 0],
          !.num_active_parameters = 0,
          !.in_derivative_section = FALSE,
          !.parameter_cursor = 0,
          !.i = 0]

\* CHECK_GT(num_residuals(), 0), the jacobians == nullptr branch, and the
\* allocation of the scratch space.
BeginStep(c, s) ==
  IF ~(c.num_residuals > 0) THEN Return(s, "abort")
  ELSE IF c.jacobians_null THEN [s EXCEPT !.pc = "direct"]
  ELSE [s EXCEPT
          !.pc = "discover",
          !.input_jets = [p \in 1..NumParameters(c) |-> JetZero(c.Stride)],
          !.output_jets = [k \in 1..c.num_residuals |-> JetZero(c.Stride)],
          !.jet_parameters = [i \in 1..NumBlocks(c) |-> 0],
          !.num_active_parameters = 0,
          !.start_derivative_section = <<>>,
          !.in_derivative_section = FALSE,
          !.parameter_cursor = 0,
          !.i = 0]

\* return (*functor_)(parameters, residuals): the functor on the caller's
\* plain values and residual buffer.  A functor that fails may or may not
\* have written its output first.
DirectStep(c, s, outcome) ==
  [s EXCEPT
     !.pc = "done",
     !.ret = IF outcome = "ok" THEN "true" ELSE "false",
     !.residuals =
        IF outcome = "fail" THEN @
        ELSE Invoke_double(c),
     !.residual_writes = IF outcome = "fail" THEN @ ELSE @ + 1,
     !.invocations = @ + 1,
     !.direct_invocations = @ + 1,
     !.failed_invocations = IF outcome = "ok" THEN @ ELSE @ + 1]

\* Variant of DiscoverBlock: a constant block does not end the section.
DiscoverBlockNeverClosing(c, s) ==
  LET b == s.i + 1
      parameter_block_size == c.parameter_block_sizes[b]
      opens == c.requested[b] /\ ~s.in_derivative_section
  IN  [s EXCEPT
         !.jet_parameters[b] = s.parameter_cursor,
         !.start_derivative_section =
            IF opens THEN Append(@, s.parameter_cursor) ELSE @,
         !.in_derivative_section = @ \/ c.requested[b],
         !.num_active_parameters =
            IF c.requested[b] THEN @ + parameter_block_size ELSE @,
         !.input_jets =
            [p \in DOMAIN @ |->
               IF s.parameter_cursor < p /\ p <= s.parameter_cursor + parameter_block_size
               THEN [@[p] EXCEPT !.a = c.parameters[b][p - s.parameter_cursor]]
               ELSE @[p]],
         !.parameter_cursor = @ + parameter_block_size,
         !.i = @ + 1]

\* Variant of DiscoverBlock: every active block starts a section.
DiscoverBlockAlwaysOpening(c, s) ==
  LET b == s.i + 1
      parameter_block_size == c.parameter_block_sizes[b]
  IN  [s EXCEPT
         !.jet_parameters[b] = s.parameter_cursor,
         !.start_derivative_section =
            IF c.requested[b] THEN Append(@, s.parameter_cursor) ELSE @,
         !.in_derivative_section = c.requested[b],
         !.num_active_parameters =
            IF c.requested[b] THEN @ + parameter_block_size ELSE @,
         !.input_jets =
            [p \in DOMAIN @ |->
               IF s.parameter_cursor < p /\ p <= s.parameter_cursor + parameter_block_size
               THEN [@[p] EXCEPT !.a = c.parameters[b][p - s.parameter_cursor]]
               ELSE @[p]],
         !.parameter_cursor = @ + parameter_block_size,
         !.i = @ + 1]

\* One iteration of the discovery loop, for block s.i.
DiscoverBlock(c, s) ==
  LET b == s.i + 1
      parameter_block_size == c.parameter_block_sizes[b]
      opens == c.requested[b] /\ ~s.in_derivative_section
  IN  [s EXCEPT
         !.jet_parameters[b] = s.parameter_cursor,
         !.start_derivative_section =
            IF opens THEN Append(@, s.parameter_cursor) ELSE @,
         !.in_derivative_section = c.requested[b],
         !.num_active_parameters =
            IF c.requested[b] THEN @ + parameter_block_size ELSE @,
         !.input_jets =
            [p \in DOMAIN @ |->
               IF s.parameter_cursor < p /\ p <= s.parameter_cursor + parameter_block_size
               THEN [@[p] EXCEPT !.a = c.parameters[b][p - s.parameter_cursor]]
               ELSE @[p]],
         !.parameter_cursor = @ + parameter_block_size,
         !.i = @ + 1]

RECURSIVE DiscoverLoop(_, _)
\* for (int i = 0; i < num_parameter_blocks; ++i)
DiscoverLoop(c, s) ==
  IF ~(s.i < NumBlocks(c)) THEN [s EXCEPT !.pc = "discovered"]
  ELSE DiscoverLoop(c, DiscoverBlock(c, s))

\* Variant of NumStrides: the integer quotient, which rounds down.
NumStridesTruncated(num_active_parameters, Stride) ==
  num_active_parameters \div Stride

\* ceil(num_active_parameters / static_cast<float>(Stride)); the float
\* quotient is exact for the counts of the model.
NumStrides(num_active_parameters, Stride) ==
  (num_active_parameters + Stride - 1) \div Stride

\* Variant of DiscoverEnd: no fallback when nothing is active.
DiscoverEndNoFallback(c, s) ==
  [s EXCEPT
     !.pc = "pass",
     !.start_derivative_section = Append(@, s.parameter_cursor),
     !.num_strides = (s.num_active_parameters + c.Stride - 1) \div c.Stride,
     !.current_derivative_section = 0,
     !.current_derivative_section_cursor = 0,
     !.pass = 0]

\* Variant of DiscoverEnd: the total number of parameters is not pushed as
\* the final entry of start_derivative_section.
DiscoverEndNoSentinel(c, s) ==
  IF s.num_active_parameters = 0 THEN [s EXCEPT !.pc = "direct"]
  ELSE [s EXCEPT
          !.pc = "pass",
          !.num_strides = (s.num_active_parameters + c.Stride - 1) \div c.Stride,
          !.current_derivative_section = 0,
          !.current_derivative_section_cursor = 0,
          !.pass = 0]

\* After the discovery loop: the fallback when nothing is active, else the
\* final entry of start_derivative_section and the set-up of the pass loop.
DiscoverEnd(c, s) ==
  IF s.num_active_parameters = 0 THEN [s EXCEPT !.pc = "direct"]
  ELSE [s EXCEPT
          !.pc = "pass",
          !.start_derivative_section = Append(@, s.parameter_cursor),
          !.num_strides = NumStrides(s.num_active_parameters, c.Stride),
          !.current_derivative_section = 0,
          !.current_derivative_section_cursor = 0,
          !.pass = 0]

\* Variant of PassStep: the loop test is pass <= num_strides.
PassStepExtraPass(c, s) ==
  IF ~(s.pass <= s.num_strides) THEN Return(s, "true")
  ELSE [s EXCEPT
          !.pc = "seed",
          !.initial_derivative_section = s.current_derivative_section,
          !.initial_derivative_section_cursor = s.current_derivative_section_cursor,
          !.active_parameter_count = 0,
          !.parameter_cursor = 0,
          !.i = 0,
          !.j = 0]

\* The head of the pass loop: leave with true, or start the pass.
PassStep(c, s) ==
  IF ~(s.pass < s.num_strides) THEN Return(s, "true")
  ELSE [s EXCEPT
          !.pc = "seed",
          !.initial_derivative_section = s.current_derivative_section,
          !.initial_derivative_section_cursor = s.current_derivative_section_cursor,
          !.active_parameter_count = 0,
          !.parameter_cursor = 0,
          !.i = 0,
          !.j = 0]

\* current_derivative_section is an index of start_derivative_section.
SectionIndexValid(s) ==
  /\ 0 <= s.current_derivative_section
  /\ s.current_derivative_section < Len(s.start_derivative_section)

\* The first flattened position that has not been processed yet.
NextUnprocessed(s) ==
  s.start_derivative_section[s.current_derivative_section + 1]
    + s.current_derivative_section_cursor

\* Variant of AtUnprocessed: the offset within the section is left out.
AtUnprocessedIgnoringCursor(c, s, cursor) ==
  /\ s.active_parameter_count < c.Stride
  /\ cursor >= s.start_derivative_section[s.current_derivative_section + 1]

\* active_parameter_count < Stride && parameter_cursor >= (start_derivative_section[
\* current_derivative_section] + current_derivative_section_cursor)
AtUnprocessed(c, s, cursor) ==
  /\ s.active_parameter_count < c.Stride
  /\ cursor >= NextUnprocessed(s)

\* Reading start_derivative_section outside its bounds is undefined; the
\* model stops the call there with the result "fault".
ReadsOutOfBounds(c, s) ==
  s.active_parameter_count < c.Stride /\ ~SectionIndexValid(s)

\* Variant of NextSection: the offset within the section is not reset.
NextSectionKeepingCursor(s) ==
  [s EXCEPT !.current_derivative_section = @ + 1]

\* ++current_derivative_section; current_derivative_section_cursor = 0
NextSection(s) ==
  [s EXCEPT !.current_derivative_section = @ + 1,
            !.current_derivative_section_cursor = 0]

\* Variant of SeedBody: input_jets[parameter_cursor].v.setZero() is left out.
SeedBodyWithoutZeroing(c, s) ==
  IF ReadsOutOfBounds(c, s) THEN Return(s, "fault")
  ELSE
    LET p == s.parameter_cursor + 1
        body ==
          IF AtUnprocessed(c, s, s.parameter_cursor)
          THEN IF c.requested[s.i + 1]
               THEN [s EXCEPT
                       !.input_jets[p].v[s.active_parameter_count + 1] = 1,
                       !.active_parameter_count = @ + 1,
                       !.current_derivative_section_cursor = @ + 1,
                       !.seed_count[p] = @ + 1,
                       !.seed_pass[p] = s.pass,
                       !.seed_slot[p] = s.active_parameter_count]
               ELSE NextSection(s)
          ELSE s
    IN  [body EXCEPT !.j = @ + 1, !.parameter_cursor = @ + 1]

\* The body of the seeding loops at (i, j), with ++j, parameter_cursor++.
SeedBody(c, s) ==
  IF ReadsOutOfBounds(c, s) THEN Return(s, "fault")
  ELSE
    LET p == s.parameter_cursor + 1
        zeroed == [s EXCEPT !.input_jets[p].v = Zeros(c.Stride)]
        body ==
          IF AtUnprocessed(c, s, s.parameter_cursor)
          THEN IF c.requested[s.i + 1]
               THEN [zeroed EXCEPT
                       !.input_jets[p].v[s.active_parameter_count + 1] = 1,
                       !.active_parameter_count = @ + 1,
                       !.current_derivative_section_cursor = @ + 1,
                       !.seed_count[p] = @ + 1,
                       !.seed_pass[p] = s.pass,
                       !.seed_slot[p] = s.active_parameter_count]
               ELSE NextSection(zeroed)
          ELSE zeroed
    IN  [body EXCEPT !.j = @ + 1, !.parameter_cursor = @ + 1]

RECURSIVE SeedLoop(_, _)
\* for (i ...) for (j ...): the seeding loops of one pass.
SeedLoop(c, s) ==
  IF s.pc # "seed" THEN s
  ELSE IF ~(s.i < NumBlocks(c)) THEN [s EXCEPT !.pc = "invoke"]
  ELSE IF ~(s.j < c.parameter_block_sizes[s.i + 1])
  THEN SeedLoop(c, [s EXCEPT !.i = @ + 1, !.j = 0])
  ELSE SeedLoop(c, SeedBody(c, s))

\* Variant of InvokeStep: the functor's result is not looked at.
InvokeStepIgnoringFailure(c, s, outcome) ==
  [s EXCEPT
     !.pc = "scatter",
     !.invocations = @ + 1,
     !.failed_invocations = IF outcome = "ok" THEN @ ELSE @ + 1,
     !.output_jets = Invoke_Jet(c, s),
     !.active_parameter_count = 0,
     !.current_derivative_section = s.initial_derivative_section,
     !.current_derivative_section_cursor = s.initial_derivative_section_cursor,
     !.i = 0,
     !.j = 0,
     !.scatter_parameter_cursor = 0]

\* Variant of InvokeStep: the scatter loops start from the section index and
\* offset the seeding loops ended with, not from those the pass began with.
InvokeStepKeepingSection(c, s, outcome) ==
  IF outcome # "ok"
  THEN [Return(s, "false") EXCEPT !.invocations = @ + 1,
                                  !.failed_invocations = @ + 1]
  ELSE [s EXCEPT
          !.pc = "scatter",
          !.invocations = @ + 1,
          !.output_jets = Invoke_Jet(c, s),
          !.active_parameter_count = 0,
          !.i = 0,
          !.j = 0,
          !.scatter_parameter_cursor = 0]

\* The functor on the jets, then the reset of the bookkeeping for the
\* scatter loops.  A false result returns at once.
InvokeStep(c, s, outcome) ==
  IF outcome # "ok"
  THEN [Return(s, "false") EXCEPT !.invocations = @ + 1,
                                  !.failed_invocations = @ + 1]
  ELSE [s EXCEPT
          !.pc = "scatter",
          !.invocations = @ + 1,
          !.output_jets = Invoke_Jet(c, s),
          !.active_parameter_count = 0,
          !.current_derivative_section = s.initial_derivative_section,
          !.current_derivative_section_cursor = s.initial_derivative_section_cursor,
          !.i = 0,
          !.j = 0,
          !.scatter_parameter_cursor = 0]

\* Variant of JacobianOffset: column-major, j * num_residuals() + k.
JacobianOffsetColumnMajor(c, s, k) == s.j * c.num_residuals + k

\* k * parameter_block_sizes()[i] + j, the offset of (residual k, column j)
\* in the buffer of block i.
JacobianOffset(c, s, k) == k * c.parameter_block_sizes[s.i + 1] + s.j

\* for k: jacobians[i][k * parameter_block_sizes()[i] + j] =
\*          output_jets[k].v[active_parameter_count]
\* bad_write records a write outside the caller's buffer.
ScatterColumn(c, s) ==
  LET b == s.i + 1
      size == c.parameter_block_sizes[b]
      offs == [k \in 1..c.num_residuals |-> JacobianOffset(c, s, k - 1) + 1]
      hit(o) == {k \in 1..c.num_residuals : offs[k] = o}
      last(o) == CHOOSE k \in hit(o) : \A k2 \in hit(o) : k2 <= k
  IN  [s EXCEPT
         !.jacobians[b] =
            [o \in DOMAIN @ |->
               IF hit(o) = {} THEN @[o]
               ELSE s.output_jets[last(o)].v[s.active_parameter_count + 1]],
         !.write_count[b] = [o \in DOMAIN @ |-> @[o] + Cardinality(hit(o))],
         !.write_pass[b] = [o \in DOMAIN @ |-> IF hit(o) = {} THEN @[o] ELSE s.pass],
         !.bad_write =
            @ \/ \E k \in 1..c.num_residuals : offs[k] \notin 1..(c.num_residuals * size)]

\* Variant of ScatterBody: active_parameter_count is not advanced, so every
\* column is read from derivative slot 0.
ScatterBodyFirstSlot(c, s) ==
  IF ReadsOutOfBounds(c, s) THEN Return(s, "fault")
  ELSE
    LET body ==
          IF AtUnprocessed(c, s, s.scatter_parameter_cursor)
          THEN IF c.requested[s.i + 1]
               THEN [ScatterColumn(c, s) EXCEPT
                       !.current_derivative_section_cursor = @ + 1]
               ELSE NextSection(s)
          ELSE s
    IN  [body EXCEPT !.j = @ + 1, !.scatter_parameter_cursor = @ + 1]

\* The body of the scatter loops at (i, j), with ++j, parameter_cursor++.
ScatterBody(c, s) ==
  IF ReadsOutOfBounds(c, s) THEN Return(s, "fault")
  ELSE
    LET body ==
          IF AtUnprocessed(c, s, s.scatter_parameter_cursor)
          THEN IF c.requested[s.i + 1]
               THEN [ScatterColumn(c, s) EXCEPT
                       !.active_parameter_count = @ + 1,
                       !.current_derivative_section_cursor = @ + 1]
               ELSE NextSection(s)
          ELSE s
    IN  [body EXCEPT !.j = @ + 1, !.scatter_parameter_cursor = @ + 1]

RECURSIVE ScatterLoop(_, _)
\* for (i ...) for (j ...): the scatter loops of one pass.
ScatterLoop(c, s) ==
  IF s.pc # "scatter" THEN s
  ELSE IF ~(s.i < NumBlocks(c)) THEN [s EXCEPT !.pc = "copy"]
  ELSE IF ~(s.j < c.parameter_block_sizes[s.i + 1])
  THEN ScatterLoop(c, [s EXCEPT !.i = @ + 1, !.j = 0])
  ELSE ScatterLoop(c, ScatterBody(c, s))

\* Variant of CopyStep: the last pass is taken to be pass num_strides.
CopyStepOffByOne(c, s) ==
  [s EXCEPT
     !.pc = "pass",
     !.residuals =
        IF s.pass = s.num_strides
        THEN [k \in 1..c.num_residuals |-> s.output_jets[k].a]
        ELSE @,
     !.residual_writes = IF s.pass = s.num_strides THEN @ + 1 ELSE @,
     !.pass = @ + 1]

\* Variant of CopyStep: the residuals are copied out in every pass.
CopyStepEveryPass(c, s) ==
  [s EXCEPT
     !.pc = "pass",
     !.residuals = [k \in 1..c.num_residuals |-> s.output_jets[k].a],
     !.residual_writes = @ + 1,
     !.pass = @ + 1]

\* if (pass == num_strides - 1) copy the residuals; then ++pass.
CopyStep(c, s) ==
  [s EXCEPT
     !.pc = "pass",
     !.residuals =
        IF s.pass = s.num_strides - 1
        THEN [k \in 1..c.num_residuals |-> s.output_jets[k].a]
        ELSE @,
     !.residual_writes = IF s.pass = s.num_strides - 1 THEN @ + 1 ELSE @,
     !.pass = @ + 1]

\* Evaluate as a whole, every functor invocation succeeding: the steps above
\* in the order of the code.
SuccessStep(c, s) ==
  CASE s.pc = "begin" -> BeginStep(c, s)
    [] s.pc = "direct" -> DirectStep(c, s, "ok")
    [] s.pc = "discover" -> DiscoverLoop(c, s)
    [] s.pc = "discovered" -> DiscoverEnd(c, s)
    [] s.pc = "pass" -> PassStep(c, s)
    [] s.pc = "seed" -> SeedLoop(c, s)
    [] s.pc = "invoke" -> InvokeStep(c, s, "ok")
    [] s.pc = "scatter" -> ScatterLoop(c, s)
    [] s.pc = "copy" -> CopyStep(c, s)

RECURSIVE RunFrom(_, _)
RunFrom(c, s) == IF s.pc \in Terminal THEN s ELSE RunFrom(c, SuccessStep(c, s))

Evaluate(c) == RunFrom(c, InitEv(c))

----------------------------------------------------------------------------
\* The calls the model explores.

\* Block layouts: up to MaxBlocks blocks of positive size holding at most
\* MaxParameters values in all, and the layouts of blocks of size 0 or 1
\* (AddParameterBlock stores any size it is given).
Sizes ==
  UNION {{s \in SeqsOver(1..MaxParameters, n) : SeqSum(s) <= MaxParameters}
           \cup SeqsOver(0..1, n) : n \in 1..MaxBlocks}

\* The strides: every width up to the default one.
Strides == 1..DefaultStride

\* The caller's values: flattened position q (0-based) holds q + 1.
ParametersFor(sizes) ==
  [i \in 1..Len(sizes) |->
     [j \in 1..sizes[i] |-> BlockStart(sizes, i) + j]]

\* The Jacobian arguments for n blocks: a null array, or an array with any
\* pattern of null and non-null slots.
Requests(n) ==
  {[jacobians_null |-> TRUE, requested |-> [i \in 1..n |-> FALSE]]}
    \cup {[jacobians_null |-> FALSE, requested |-> req] : req \in SeqsOver(BOOLEAN, n)}

MakeCall(sizes, nres, stride, params, request) ==
  [parameter_block_sizes |-> sizes,
   num_residuals |-> nres,
   Stride |-> stride,
   parameters |-> params,
   jacobians_null |-> request.jacobians_null,
   requested |-> request.requested,
   functor |-> "CostFunctor"]

\* The residual counts: never set (0), negative, or set to a positive count.
ResidualCounts == (-1)..MaxResiduals

Outcomes == {"ok", "fail", "fail_after_write"}

\* TwoParameterBlockFunctor ends in `return true`.
OutcomesOf(c) ==
  IF c.functor = "TwoParameterBlockFunctor" THEN {"ok"} ELSE Outcomes

Init ==
  /\ \E sizes \in Sizes, nres \in ResidualCounts, stride \in Strides :
       \E request \in Requests(Len(sizes)) :
         call = MakeCall(sizes, nres, stride, ParametersFor(sizes), request)
  /\ ev = InitEv(call)
  /\ session = NoSession
  /\ EngineAside
  /\ ArrayAside

Begin ==
  /\ ev.pc = "begin"
  /\ ev' = BeginStep(call, ev)
  /\ UNCHANGED <<call, aside>>

Direct ==
  /\ ev.pc = "direct"
  /\ \E outcome \in OutcomesOf(call) : ev' = DirectStep(call, ev, outcome)
  /\ UNCHANGED <<call, aside>>

Discover ==
  /\ ev.pc = "discover"
  /\ ev' = DiscoverLoop(call, ev)
  /\ UNCHANGED <<call, aside>>

DiscoverDone ==
  /\ ev.pc = "discovered"
  /\ ev' = DiscoverEnd(call, ev)
  /\ UNCHANGED <<call, aside>>

Pass ==
  /\ ev.pc = "pass"
  /\ ev' = PassStep(call, ev)
  /\ UNCHANGED <<call, aside>>

Seed ==
  /\ ev.pc = "seed"
  /\ ev' = SeedLoop(call, ev)
  /\ UNCHANGED <<call, aside>>

Invoke ==
  /\ ev.pc = "invoke"
  /\ \E outcome \in OutcomesOf(call) : ev' = InvokeStep(call, ev, outcome)
  /\ UNCHANGED <<call, aside>>

Scatter ==
  /\ ev.pc = "scatter"
  /\ ev' = ScatterLoop(call, ev)
  /\ UNCHANGED <<call, aside>>

Copy ==
  /\ ev.pc = "copy"
  /\ ev' = CopyStep(call, ev)
  /\ UNCHANGED <<call, aside>>

Next ==
  \/ Begin
  \/ Direct
  \/ Discover
  \/ DiscoverDone
  \/ Pass
  \/ Seed
  \/ Invoke
  \/ Scatter
  \/ Copy

Spec == Init /\ [][Next]_vars

----------------------------------------------------------------------------
\* Vocabulary of the properties.

Returned(r) == ev.pc = "done" /\ ev.ret = r

PositiveSizes ==
  \A b \in 1..NumBlocks(call) : call.parameter_block_sizes[b] > 0

SomeRequested == \E b \in 1..NumBlocks(call) : call.requested[b]

\* The number of scalar positions of the blocks with a non-null slot.
ActiveCount ==
  SeqSum([b \in 1..NumBlocks(call) |->
            IF call.requested[b] THEN call.parameter_block_sizes[b] ELSE 0])

\* The index in the flattened parameter vector (1-based) of offset j (0-based)
\* of block b (1-based).
Flat(b, j) == BlockStart(call.parameter_block_sizes, b) + j + 1

\* The call with another Jacobian argument.
WithRequest(c, request) ==
  [c EXCEPT !.jacobians_null = request.jacobians_null,
            !.requested = request.requested]

NullArray(n) == [jacobians_null |-> TRUE, requested |-> [b \in 1..n |-> FALSE]]

NullSlots(n) == [jacobians_null |-> FALSE, requested |-> [b \in 1..n |-> FALSE]]

AllBlocks(n) == [jacobians_null |-> FALSE, requested |-> [b \in 1..n |-> TRUE]]

\* The least m with m * stride >= n: ceil(n / stride).
Ceil(n, stride) == CHOOSE m \in 0..n : m * stride >= n /\ (m = 0 \/ (m - 1) * stride < n)

----------------------------------------------------------------------------
\* C1.  With positive block sizes and at least one active block, no
\* position is ever seeded twice and no position of a constant block is ever
\* seeded, no Jacobian element is written twice, and when Evaluate returns
\* true every position of every active block has been seeded exactly once
\* and every element of every requested Jacobian buffer written exactly once.
C1_SeededAndWrittenOnce ==
  (PositiveSizes /\ SomeRequested /\ call.num_residuals > 0) =>
    \A b \in 1..NumBlocks(call) :
      /\ \A j \in 0..(call.parameter_block_sizes[b] - 1) :
           /\ ev.seed_count[Flat(b, j)] <= (IF call.requested[b] THEN 1 ELSE 0)
           /\ (Returned("true") /\ call.requested[b]) => ev.seed_count[Flat(b, j)] = 1
      /\ \A o \in DOMAIN ev.write_count[b] :
           /\ ev.write_count[b][o] <= 1
           /\ Returned("true") => ev.write_count[b][o] = 1

\* A successful call over several passes with a constant block between two
\* active ones.
C1_Witness ==
  /\ Returned("true")
  /\ PositiveSizes
  /\ NumBlocks(call) = 3
  /\ call.requested = <<TRUE, FALSE, TRUE>>
  /\ ev.num_strides >= 2
  /\ call.num_residuals >= 2

\* C2.  Every Jacobian write lands inside the caller's buffer; after the
\* scatter loops of a pass, each element written in that pass holds the
\* derivative-vector entry of its residual at the slot its position was
\* seeded in; and after a successful Evaluate the element at k * n_i + j of
\* block i holds the partial derivative of residual k with respect to
\* parameter j of block i.
C2_RowMajorPartials ==
  /\ ~ev.bad_write
  /\ \A b \in 1..NumBlocks(call) :
       \A j \in 0..(call.parameter_block_sizes[b] - 1) :
         \A k \in 0..(call.num_residuals - 1) :
           LET o == k * call.parameter_block_sizes[b] + j + 1
           IN  call.requested[b] =>
                 /\ o \in DOMAIN ev.jacobians[b]
                 /\ (ev.pc = "copy" /\ ev.write_count[b][o] > 0
                       /\ ev.write_pass[b][o] = ev.pass) =>
                      /\ ev.seed_pass[Flat(b, j)] = ev.pass
                      /\ ev.jacobians[b][o] =
                           ev.output_jets[k + 1].v[ev.seed_slot[Flat(b, j)] + 1]
                 /\ (Returned("true") /\ ev.direct_invocations = 0) =>
                      ev.jacobians[b][o] = Partial(k, j, call.parameters[b][j + 1])

\* A successful strided call with two residuals and an active block of three
\* columns, not the first block.
C2_Witness ==
  /\ Returned("true")
  /\ ev.direct_invocations = 0
  /\ call.num_residuals = 2
  /\ \E b \in 2..NumBlocks(call) :
       call.requested[b] /\ call.parameter_block_sizes[b] = 3

\* C3.  The residuals a successful Evaluate writes when some Jacobian slot
\* is requested are the residuals Evaluate writes for the same engine and
\* parameters with a null Jacobian array, and with every slot null.
C3_ResidualsIgnoreRequest ==
  (Returned("true") /\ SomeRequested) =>
    LET plain == Evaluate(WithRequest(call, NullArray(NumBlocks(call))))
        slots == Evaluate(WithRequest(call, NullSlots(NumBlocks(call))))
    IN  /\ plain.ret = "true"
        /\ slots.ret = "true"
        /\ ev.residuals = plain.residuals
        /\ ev.residuals = slots.residuals

\* A successful call that took several passes with Jacobians requested.
C3_Witness ==
  /\ Returned("true")
  /\ SomeRequested
  /\ ev.num_strides >= 2
  /\ ev.invocations >= 2

\* A stride width larger than the number of parameters: one pass seeds
\* every active position.
WideStride == NumParameters(call) + 1

\* C4.  A successful Evaluate, under every stride width from 1 to the
\* default one, writes the residuals and Jacobian entries that Evaluate
\* writes for the same engine, parameters and request under a stride width
\* larger than the number of parameters; the results under any two widths
\* are therefore the same.
C4_StrideIndependent ==
  Returned("true") =>
    LET other == Evaluate([call EXCEPT !.Stride = WideStride])
    IN  /\ other.ret = "true"
        /\ other.residuals = ev.residuals
        /\ other.jacobians = ev.jacobians

\* A successful call whose active count is not a multiple of its stride
\* width and took several passes.
C4_Witness ==
  /\ Returned("true")
  /\ ev.num_strides >= 2
  /\ call.Stride > 1
  /\ ActiveCount % call.Stride # 0

\* C5.  For every block requested in a successful Evaluate, its Jacobian
\* buffer and the residuals are those Evaluate writes when every block is
\* requested; two request patterns that both request a block therefore
\* write the same values for it.
C5_BlockIgnoresOtherSlots ==
  (Returned("true") /\ SomeRequested) =>
    LET every == Evaluate(WithRequest(call, AllBlocks(NumBlocks(call))))
    IN  /\ every.ret = "true"
        /\ every.residuals = ev.residuals
        /\ \A b \in 1..NumBlocks(call) :
             call.requested[b] => every.jacobians[b] = ev.jacobians[b]

\* A successful call that requests the last of three blocks and the first,
\* with the middle one constant.
C5_Witness ==
  /\ Returned("true")
  /\ NumBlocks(call) = 3
  /\ call.requested = <<TRUE, FALSE, TRUE>>
  /\ call.parameter_block_sizes[3] >= 2
  /\ call.Stride = 2

\* The two-block call that corresponds to a three-block call: the middle
\* block left out, the first and last blocks with their values, both active.
WithoutMiddle(c) ==
  MakeCall(<<c.parameter_block_sizes[1], c.parameter_block_sizes[3]>>,
           c.num_residuals, c.Stride,
           <<c.parameters[1], c.parameters[3]>>, AllBlocks(2))

\* C6.  With block sizes [2, 3, 2], the middle slot null and the outer
\* blocks active, the Jacobians of the first and last blocks are those of
\* the two-block call with sizes [2, 2] that leaves the middle block out.
C6_ConstantMiddleBlock ==
  (/\ Returned("true")
   /\ call.parameter_block_sizes = <<2, 3, 2>>
   /\ call.requested = <<TRUE, FALSE, TRUE>>) =>
    LET two == Evaluate(WithoutMiddle(call))
    IN  /\ two.ret = "true"
        /\ ev.jacobians[1] = two.jacobians[1]
        /\ ev.jacobians[3] = two.jacobians[2]

\* The three-block call of the claim has returned true.
C6_Witness ==
  /\ Returned("true")
  /\ call.parameter_block_sizes = <<2, 3, 2>>
  /\ call.requested = <<TRUE, FALSE, TRUE>>
  /\ call.num_residuals = 2
  /\ call.Stride = 3

\* No Jacobian buffer has been written.
NoJacobianWritten ==
  \A b \in 1..NumBlocks(call) :
    \A o \in DOMAIN ev.jacobians[b] :
      ev.write_count[b][o] = 0 /\ ev.jacobians[b][o] = Unwritten

\* C7.  With a positive residual count, when the Jacobian array is null, or
\* every slot is null, or the blocks with a non-null slot hold no position,
\* Evaluate never touches a Jacobian buffer, and it returns after exactly one
\* functor invocation, made on the caller's parameters and residual buffer,
\* with that invocation's result: true with the functor's plain residuals in
\* the caller's buffer, false if the invocation failed.
C7_FastPath ==
  (call.num_residuals > 0 /\ ActiveCount = 0) =>
    /\ NoJacobianWritten
    /\ ev.invocations = ev.direct_invocations
    /\ ev.pc = "done" =>
         /\ ev.invocations = 1
         /\ ev.direct_invocations = 1
         /\ ev.ret = (IF ev.failed_invocations = 0 THEN "true" ELSE "false")
         /\ ev.ret = "true" =>
              ev.residuals = FunctorPlain(call.parameter_block_sizes,
                                          call.num_residuals, call.parameters)

\* A call that requests the Jacobian of an empty block only has returned
\* after discovering that nothing is active.
C7_Witness ==
  /\ Returned("true")
  /\ ~call.jacobians_null
  /\ SomeRequested
  /\ ActiveCount = 0
  /\ NumParameters(call) > 0
  /\ ev.jet_parameters # <<>>

\* An upper bound on the number of steps the call has left: the position in
\* the call, and in the pass loop the number of passes to go.
Variant ==
  LET left == ev.num_strides - ev.pass
      most == NumParameters(call) + 1
  IN  CASE ev.pc = "done" -> 0
        [] ev.pc = "direct" -> 1
        [] ev.pc = "pass" -> 5 * left + 1
        [] ev.pc = "seed" -> 5 * left
        [] ev.pc = "invoke" -> 5 * left - 1
        [] ev.pc = "scatter" -> 5 * left - 2
        [] ev.pc = "copy" -> 5 * left - 3
        [] ev.pc = "discovered" -> 5 * most + 2
        [] ev.pc = "discover" -> 5 * most + 3
        [] ev.pc = "begin" -> 5 * most + 4

\* The positions of a call.  Each one but "done" is the guard of one action
\* of Next, which has no other guard: a call that has not ended can step.
Positions_pc ==
  {"begin", "direct", "discover", "discovered", "pass", "seed", "invoke",
   "scatter", "copy", "done"}

\* The invocation counts of C8, and the call's progress: the call is at a
\* position it can step from or has ended, and the steps left are never
\* negative.
C8_Invocations ==
  /\ (Returned("true") /\ ActiveCount > 0) =>
       ev.invocations = Ceil(ActiveCount, call.Stride)
  /\ (Returned("true") /\ ActiveCount = 0) => ev.invocations = 1
  /\ Variant >= 0
  /\ ev.pc \in Positions_pc

\* C8.  Every Evaluate call comes to an end: a call that has not ended can
\* take a step, every step lowers a bound on the steps left, and that bound
\* is never negative.  A call that returns true has made exactly
\* ceil(N / Stride) functor invocations when N > 0 positions are active, and
\* exactly one when none is.
C8_TerminatesAfterCeilPasses ==
  /\ [](C8_Invocations)
  /\ [][Variant' < Variant]_vars

\* A successful call whose last pass is a partial one: seven active
\* positions in strides of three.
C8_Witness ==
  /\ Returned("true")
  /\ ActiveCount = 7
  /\ call.Stride = 3
  /\ ev.invocations = 3

\* No Jacobian element was written in the current pass.
NothingScatteredInPass ==
  \A b \in 1..NumBlocks(call) :
    \A o \in DOMAIN ev.write_count[b] :
      ev.write_count[b][o] > 0 => ev.write_pass[b][o] < ev.pass

\* C9.  Evaluate returns true only if no functor invocation failed and
\* false only if one did; once an invocation has failed the call is over
\* with result false; and when the failed invocation was that of pass p,
\* exactly p + 1 invocations have been made and nothing of pass p has been
\* scattered.
C9_FailurePropagates ==
  /\ Returned("true") => ev.failed_invocations = 0
  /\ Returned("false") => ev.failed_invocations = 1
  /\ ev.failed_invocations > 0 =>
       /\ Returned("false")
       /\ ev.direct_invocations = 0 =>
            /\ ev.invocations = ev.pass + 1
            /\ NothingScatteredInPass

\* The functor failed in the second pass of a call: two invocations, the
\* first pass scattered.
C9_Witness ==
  /\ Returned("false")
  /\ ev.direct_invocations = 0
  /\ ev.pass = 1
  /\ ev.invocations = 2
  /\ ev.num_strides >= 3
  /\ \E b \in 1..NumBlocks(call) :
       \E o \in DOMAIN ev.write_count[b] : ev.write_count[b][o] = 1

\* C10.  While the residual count is not positive, the call makes no functor
\* invocation and writes neither the residual buffer nor a Jacobian buffer,
\* and it ends in the fatal abort, with and without a Jacobian array.
C10_ChecksResidualCount ==
  ~(call.num_residuals > 0) =>
    /\ ev.invocations = 0
    /\ ev.residual_writes = 0
    /\ NoJacobianWritten
    /\ ev.pc \in {"begin", "done"}
    /\ ev.pc = "done" => ev.ret = "abort"

\* The abort of a call with a null Jacobian array on an engine whose residual
\* count was never set.
C10_Witness ==
  /\ Returned("abort")
  /\ call.num_residuals = 0
  /\ call.jacobians_null
  /\ NumParameters(call) > 0

(***************************************************************************)
(* Ownership of the functor: construction, the defaulted move operations   *)
(* and the destructor of DynamicAutoDiffCostFunction.                      *)
(***************************************************************************)

\* Bounds of the ownership model.
MaxEngines == 3
MaxFunctors == 2

\* The null pointer held by an empty std::unique_ptr<CostFunctor>.
Nullptr == 0

\* enum Ownership (ceres/types.h), as used by the constructor and destructor.
Ownerships == {"TAKE_OWNERSHIP", "DO_NOT_TAKE_OWNERSHIP"}

\* An engine slot before its constructor ran.
NoEngine ==
  [state |-> "none", functor_ |-> Nullptr, ownership_ |-> "TAKE_OWNERSHIP"]

\* A functor before `new CostFunctor`.
NoFunctor == [state |-> "free", declined |-> FALSE, deletes |-> 0]

\* delete p: a no-op on the null pointer, the end of the functor otherwise.
Delete(heap, p) ==
  IF p = Nullptr
    THEN heap
    ELSE [heap EXCEPT ![p].state = "destroyed", ![p].deletes = @ + 1]

\* DynamicAutoDiffCostFunction(CostFunctor* functor, Ownership ownership):
\* functor_(std::move(functor)), ownership_(ownership).
Constructed(f, ownership) ==
  [state |-> "alive", functor_ |-> f, ownership_ |-> ownership]

\* std::unique_ptr's move assignment, reset(other.release()): the target
\* takes the source's pointer and deletes the object it held before.  On
\* self-assignment release() has emptied the target, so nothing is deleted.
MoveAssigned(es, to, from) ==
  IF to = from
    THEN es
    ELSE [es EXCEPT ![to].functor_ = es[from].functor_,
                    ![to].ownership_ = es[from].ownership_,
                    ![from].functor_ = Nullptr]

Displaced(es, to, from) ==
  IF to = from THEN Nullptr ELSE es[to].functor_

\* ~DynamicAutoDiffCostFunction(): release() when the functor is not owned,
\* then the member functor_ is destroyed and deletes what it still holds.
HeldAtMemberDestruction(e) ==
  IF e.ownership_ = "DO_NOT_TAKE_OWNERSHIP" THEN Nullptr ELSE e.functor_

OwnershipInit ==
  /\ engines = [e \in 1..MaxEngines |-> NoEngine]
  /\ functors = [f \in 1..MaxFunctors |-> NoFunctor]
  /\ call = NoCall
  /\ ev = NoEv
  /\ session = NoSession
  /\ ArrayAside

OwnershipFrame == UNCHANGED <<call, ev, session, array, source, applications>>

\* An engine is constructed on a functor the caller has just allocated, or
\* on one the caller still owns and shares with other engines.
Construct ==
  /\ \E e \in 1..MaxEngines, f \in 1..MaxFunctors, ownership \in Ownerships:
       /\ engines[e].state = "none"
       /\ \/ functors[f].state = "free"
          \/ /\ functors[f].state = "alive"
             /\ functors[f].declined
             /\ ownership = "DO_NOT_TAKE_OWNERSHIP"
       /\ engines' = [engines EXCEPT ![e] = Constructed(f, ownership)]
       /\ functors' =
            [functors EXCEPT
               ![f].state = "alive",
               ![f].declined = (ownership = "DO_NOT_TAKE_OWNERSHIP")]
  /\ OwnershipFrame

\* DynamicAutoDiffCostFunction(DynamicAutoDiffCostFunction&& other) = default
MoveConstruct ==
  /\ \E e \in 1..MaxEngines, other \in 1..MaxEngines:
       /\ engines[e].state = "none"
       /\ engines[other].state = "alive"
       /\ engines' =
            [engines EXCEPT
               ![e] = Constructed(engines[other].functor_,
                                  engines[other].ownership_),
               ![other].functor_ = Nullptr]
       /\ UNCHANGED functors
  /\ OwnershipFrame

\* operator=(DynamicAutoDiffCostFunction&& other) = default
MoveAssign ==
  /\ \E to \in 1..MaxEngines, other \in 1..MaxEngines:
       /\ engines[to].state = "alive"
       /\ engines[other].state = "alive"
       /\ engines' = MoveAssigned(engines, to, other)
       /\ functors' = Delete(functors, Displaced(engines, to, other))
  /\ OwnershipFrame

Destroy ==
  /\ \E e \in 1..MaxEngines:
       /\ engines[e].state = "alive"
       /\ engines' = [engines EXCEPT ![e].state = "destroyed",
                                     ![e].functor_ = Nullptr]
       /\ functors' = Delete(functors, HeldAtMemberDestruction(engines[e]))
  /\ OwnershipFrame

OwnershipNext ==
  \/ Construct
  \/ MoveConstruct
  \/ MoveAssign
  \/ Destroy

OwnershipSpec == OwnershipInit /\ [][OwnershipNext]_vars

\* C11: a functor handed to an engine with DO_NOT_TAKE_OWNERSHIP is never
\* destroyed by an engine, whatever sequence of constructions, move
\* constructions, move assignments and destructions the engines go through.
\* (Only engines delete functors in this specification.)
C11_DeclinedNeverDestroyed ==
  \A f \in 1..MaxFunctors:
    functors[f].declined => functors[f].state # "destroyed"

(***************************************************************************)
(* A sequence of Evaluate calls on one engine.                             *)
(***************************************************************************)

\* The engines of this specification: blocks of one or two parameters.
RepeatSizes ==
  {sizes \in UNION {SeqsOver(1..2, n) : n \in 1..MaxBlocks} :
     SeqSum(sizes) <= MaxParameters}

RepeatStrides == {2, DefaultStride}

\* What Evaluate (a const member function) can read of the engine.
EngineOf(c) ==
  [parameter_block_sizes |-> c.parameter_block_sizes,
   num_residuals |-> c.num_residuals,
   Stride |-> c.Stride]

RequestOf(c) == [jacobians_null |-> c.jacobians_null, requested |-> c.requested]

\* The activation of the next call.  The caller hands in fresh buffers; the
\* locals hold whatever the previous call left where they live, until their
\* declarations in Evaluate initialise them.
NextCallEv(c, s) ==
  LET fresh == InitEv(c) IN
  [fresh EXCEPT
     !.i = s.i,
     !.j = s.j,
     !.parameter_cursor = s.parameter_cursor,
     !.scatter_parameter_cursor = s.scatter_parameter_cursor,
     !.num_active_parameters = s.num_active_parameters,
     !.start_derivative_section = s.start_derivative_section,
     !.in_derivative_section = s.in_derivative_section,
     !.jet_parameters = s.jet_parameters,
     !.num_strides = s.num_strides,
     !.pass = s.pass,
     !.current_derivative_section = s.current_derivative_section,
     !.current_derivative_section_cursor = s.current_derivative_section_cursor,
     !.initial_derivative_section = s.initial_derivative_section,
     !.initial_derivative_section_cursor = s.initial_derivative_section_cursor,
     !.active_parameter_count = s.active_parameter_count,
     !.input_jets = s.input_jets,
     !.output_jets = s.output_jets]

RepeatInit ==
  /\ \E sizes \in RepeatSizes, stride \in RepeatStrides:
       \E request \in Requests(Len(sizes)):
         /\ call = MakeCall(sizes, 1, stride, ParametersFor(sizes), request)
         /\ session = [repeated |-> FALSE, previous |-> request]
  /\ ev = InitEv(call)
  /\ EngineAside
  /\ ArrayAside

\* The caller calls Evaluate again on the same engine and parameters, with
\* any Jacobian request.
NextCall ==
  /\ ev.pc = "done"
  /\ \E request \in Requests(NumBlocks(call)):
       /\ call' = WithRequest(call, request)
       /\ ev' = NextCallEv(call', ev)
  /\ session' = [repeated |-> TRUE, previous |-> RequestOf(call)]
  /\ UNCHANGED <<engines, functors, array, source, applications>>

RepeatNext ==
  \/ Next
  \/ NextCall

RepeatSpec == RepeatInit /\ [][RepeatNext]_vars

\* The outputs of a call: the return value and the caller's buffers.
Outputs(s) == [ret |-> s.ret, residuals |-> s.residuals, jacobians |-> s.jacobians]

\* C12: in a sequence of calls on one engine whose functor is deterministic
\* (here: it succeeds on every input), the outputs of every call are those of
\* a first call with the same parameters and Jacobian request, whatever calls
\* came before; and no step changes the engine's block sizes, residual count
\* or Stride.
C12_OutputsOfCall ==
  (ev.pc = "done" /\ ev.failed_invocations = 0)
    => Outputs(ev) = Outputs(Evaluate(call))

C12_CallsIndependent ==
  /\ [](C12_OutputsOfCall)
  /\ [][EngineOf(call') = EngineOf(call)]_vars

\* A later call has returned true on the strided path after a call with a
\* different Jacobian request.
C12_Witness ==
  /\ session.repeated
  /\ session.previous # RequestOf(call)
  /\ ~session.previous.jacobians_null
  /\ Returned("true")
  /\ ev.failed_invocations = 0
  /\ ev.invocations > 1

(***************************************************************************)
(* The engine on TwoParameterBlockFunctor.                                 *)
(***************************************************************************)

\* Two blocks of at least the two values the functor reads of each.
TwoBlockSizes ==
  {sizes \in SeqsOver(2..MaxParameters, 2) : SeqSum(sizes) <= MaxParameters}

ScenarioInit ==
  /\ \E sizes \in TwoBlockSizes, stride \in Strides :
       \E request \in Requests(2) :
         call = [MakeCall(sizes, 2, stride, ParametersFor(sizes), request)
                   EXCEPT !.functor = "TwoParameterBlockFunctor"]
  /\ ev = InitEv(call)
  /\ session = NoSession
  /\ EngineAside
  /\ ArrayAside

ScenarioSpec == ScenarioInit /\ [][Next]_vars

\* Row k (0-based) of the Jacobian: row k of block 0's buffer, then row k of
\* block 1's buffer, each buffer row-major.
JacobianRow(k) ==
  LET row(b) == SubSeq(ev.jacobians[b],
                       k * call.parameter_block_sizes[b] + 1,
                       (k + 1) * call.parameter_block_sizes[b])
  IN  row(1) \o row(2)

\* The scenario: two blocks of size 2, both active, x1 = [1, 2], x2 = [3, 4].
Scenario ==
  /\ call.functor = "TwoParameterBlockFunctor"
  /\ call.parameter_block_sizes = <<2, 2>>
  /\ call.parameters = <<<<1, 2>>, <<3, 4>>>>
  /\ ~call.jacobians_null
  /\ call.requested = <<TRUE, TRUE>>

\* C13: for f(x1, x2) = [x1[0]^2 + x2[0]^2, x1[1]^2 + x2[1]^2], two active
\* blocks of size 2 and x1 = [1, 2], x2 = [3, 4], Evaluate returns true with
\* residuals [10, 20] and Jacobian rows [2, 0, 6, 0] and [0, 4, 0, 8].
C13_Scenario ==
  (Scenario /\ ev.pc = "done")
    => /\ ev.ret = "true"
       /\ ev.residuals = <<10, 20>>
       /\ JacobianRow(0) = <<2, 0, 6, 0>>
       /\ JacobianRow(1) = <<0, 4, 0, 8>>

\* The scenario has returned, after two passes of Stride 2.
C13_Witness ==
  /\ Scenario
  /\ ev.pc = "done"
  /\ call.Stride = 2
  /\ ev.invocations = 2

----------------------------------------------------------------------------
\* The order of seeding.

\* The <<b, j>> (block 1-based, offset 0-based) of the active positions.
ActivePositions ==
  {<<b, j>> \in (1..NumBlocks(call)) \X (0..MaxParameters) :
     call.requested[b] /\ j < call.parameter_block_sizes[b]}

\* The rank of <<b, j>> among the active positions in flattened order.
Rank(b, j) ==
  SeqSum([b2 \in 1..(b - 1) |->
            IF call.requested[b2] THEN call.parameter_block_sizes[b2] ELSE 0]) + j

Seeded(b, j) == ev.seed_count[Flat(b, j)] > 0

MinOf(m, n) == IF m <= n THEN m ELSE n

\* After the seeding loops of pass ev.pass: the positions seeded so far are
\* those of rank below min((pass + 1) * Stride, N), the position of rank r
\* was seeded in pass r div Stride at slot r - pass * Stride, and every pass
\* but the last seeded exactly Stride positions.
SeededByRank ==
  (ev.pc = "invoke")
    => /\ \A <<b, j>> \in ActivePositions :
            /\ Seeded(b, j)
                 <=> Rank(b, j) < MinOf((ev.pass + 1) * call.Stride, ActiveCount)
            /\ Seeded(b, j)
                 => /\ ev.seed_pass[Flat(b, j)] = Rank(b, j) \div call.Stride
                    /\ ev.seed_slot[Flat(b, j)]
                         = Rank(b, j) - ev.seed_pass[Flat(b, j)] * call.Stride
       /\ \A p \in 0..ev.pass :
            p < ev.num_strides - 1
              => Cardinality({<<b, j>> \in ActivePositions :
                                Seeded(b, j) /\ ev.seed_pass[Flat(b, j)] = p})
                   = call.Stride

\* Between two passes: pass ev.pass - 1 is over, pass ev.pass is to start.
BetweenPasses ==
  /\ ev.pc = "pass"
  /\ 0 < ev.pass
  /\ ev.pass < ev.num_strides

\* The first active position that has not been seeded (flattened, 0-based).
FirstUnseeded ==
  LET open == {Flat(b, j) - 1 : <<b, j>> \in {a \in ActivePositions : ~Seeded(a[1], a[2])}}
  IN  CHOOSE q \in open : \A q2 \in open : q <= q2

\* C14: pass p seeds exactly the active positions of rank p * Stride up to
\* min((p + 1) * Stride, N) - 1, the position of rank r at slot r - p * Stride;
\* every pass but the last seeds Stride positions; and the section index and
\* offset carried from one pass to the next mark where the seeded positions
\* end: every active position before start_derivative_section[section] +
\* offset has been seeded, none at or after it has.
C14_SeedingOrder ==
  /\ SeededByRank
  /\ BetweenPasses
       => \A <<b, j>> \in ActivePositions :
            Seeded(b, j) <=> Flat(b, j) - 1 < NextUnprocessed(ev)

\* C14 as stated: ... and the section index and offset carried from pass p
\* to pass p + 1 designate the first not-yet-seeded active position.
C14_CarriedDesignatesFirstUnseeded ==
  /\ SeededByRank
  /\ BetweenPasses => NextUnprocessed(ev) = FirstUnseeded

\* Between two passes of a call with a constant block directly after the
\* positions seeded so far.
C14_Witness ==
  /\ BetweenPasses
  /\ NextUnprocessed(ev) < FirstUnseeded
  /\ \E <<b, j>> \in ActivePositions : Seeded(b, j) /\ ev.seed_slot[Flat(b, j)] > 0

----------------------------------------------------------------------------
\* The caller's residual buffer on the strided path.

\* The call is on the strided path: the pass loop has been entered.
Strided == ev.num_strides > 0 /\ ev.direct_invocations = 0

ResidualsUntouched ==
  /\ ev.residual_writes = 0
  /\ \A k \in DOMAIN ev.residuals : ev.residuals[k] = Unwritten

\* C15: on the strided path the caller's residuals are written only in the
\* final pass, after the functor invocation of that pass returned true: they
\* are untouched as long as a pass is still to be completed and whenever
\* Evaluate has returned false, and once written every pass has invoked the
\* functor successfully.
C15_ResidualsOnlyInFinalPass ==
  Strided
    => /\ (ev.pass < ev.num_strides \/ Returned("false")) => ResidualsUntouched
       /\ ev.residual_writes > 0
            => /\ ev.residual_writes = 1
               /\ ev.pass = ev.num_strides
               /\ ev.invocations = ev.num_strides
               /\ ev.failed_invocations = 0

\* Evaluate has returned false from the final of several passes.
C15_Witness ==
  /\ Strided
  /\ Returned("false")
  /\ ev.num_strides > 1
  /\ ev.invocations = ev.num_strides

----------------------------------------------------------------------------
\* The derivative sections.

\* The flattened start offsets of the active blocks that are the first block
\* or directly follow a constant block.
RunStarts ==
  {BlockStart(call.parameter_block_sizes, b) :
     b \in {b2 \in 1..NumBlocks(call) :
              call.requested[b2] /\ (b2 = 1 \/ ~call.requested[b2 - 1])}}

\* The discovery loop and the push of the final entry are over.
Discovered == ev.pc \in {"pass", "seed", "invoke", "scatter", "copy"}

\* C16: for positive block sizes and at least one active block, after the
\* discovery loop start_derivative_section is strictly increasing and holds
\* exactly the start offsets of the runs of active blocks followed by the
\* total number of parameters, and num_active_parameters is the sum of the
\* sizes of the active blocks.
C16_SectionsAreRuns ==
  (Discovered /\ PositiveSizes /\ SomeRequested)
    => LET sections == ev.start_derivative_section
           n == Len(sections)
       IN  /\ \A x \in 1..(n - 1) : sections[x] < sections[x + 1]
           /\ n = Cardinality(RunStarts) + 1
           /\ {sections[x] : x \in 1..(n - 1)} = RunStarts
           /\ sections[n] = NumParameters(call)
           /\ ev.num_active_parameters = ActiveCount

\* Discovery is over on a layout that begins with a constant block followed
\* by a run of two adjacent active blocks.
C16_Witness ==
  /\ ev.pc = "pass"
  /\ ev.pass = 0
  /\ PositiveSizes
  /\ ~call.requested[1]
  /\ \E b \in 2..NumBlocks(call) : call.requested[b] /\ call.requested[b - 1]

\* C17: in every pass, in the seeding and in the scatter loops,
\* current_derivative_section is a valid index of start_derivative_section
\* whenever it is used as one, for every layout; it is never advanced beyond
\* the final entry, and once there it stays (no position is at or after the
\* total number of parameters, so the offset within it remains 0).
C17_SectionIndexValid ==
  /\ ev.ret # "fault"
  /\ Discovered
       => /\ SectionIndexValid(ev)
          /\ (ev.current_derivative_section = Len(ev.start_derivative_section) - 1)
               => ev.current_derivative_section_cursor = 0

\* The seeding loops have ended with the index at the final entry, on a
\* layout whose last block is constant.
C17_Witness ==
  /\ ev.pc = "invoke"
  /\ NumBlocks(call) > 1
  /\ ~call.requested[NumBlocks(call)]
  /\ call.parameter_block_sizes[NumBlocks(call)] > 0
  /\ ev.current_derivative_section = Len(ev.start_derivative_section) - 1

----------------------------------------------------------------------------
\* The jets handed to the functor.

\* v with a single 1 at slot (0-based) and 0 elsewhere.
OneHot(slot, width) == [d \in 1..width |-> IF d = slot + 1 THEN 1 ELSE 0]

\* Position <<b, j>> is seeded in pass p.
SeededIn(b, j, p) ==
  /\ call.requested[b]
  /\ p * call.Stride <= Rank(b, j)
  /\ Rank(b, j) < (p + 1) * call.Stride

\* C18: at every invocation of the functor on the strided path, the primal
\* of every input jet is the caller's parameter value at that position; a
\* position seeded in the current pass has a derivative vector with a single
\* 1, at its own slot, and 0 elsewhere, distinct positions having distinct
\* slots; every other position, constant or of another pass, has an all-zero
\* derivative vector.
C18_JetsAtInvocation ==
  (ev.pc = "invoke")
    => \A b \in 1..NumBlocks(call) :
         \A j \in 0..(call.parameter_block_sizes[b] - 1) :
           LET jet == ev.input_jets[Flat(b, j)] IN
           /\ jet.a = call.parameters[b][j + 1]
           /\ IF SeededIn(b, j, ev.pass)
              THEN /\ jet.v = OneHot(Rank(b, j) - ev.pass * call.Stride, call.Stride)
                   /\ \A b2 \in 1..NumBlocks(call) :
                        \A j2 \in 0..(call.parameter_block_sizes[b2] - 1) :
                          (SeededIn(b2, j2, ev.pass) /\ <<b2, j2>> # <<b, j>>)
                            => ev.input_jets[Flat(b2, j2)].v # jet.v
              ELSE jet.v = Zeros(call.Stride)

\* The functor is about to be invoked in a second pass, with a constant
\* block and with positions seeded in the first pass.
C18_Witness ==
  /\ ev.pc = "invoke"
  /\ ev.pass = 1
  /\ call.Stride > 1
  /\ \E b \in 1..NumBlocks(call) :
       ~call.requested[b] /\ call.parameter_block_sizes[b] > 0

(***************************************************************************)
(* MapValuesToContiguousRange (internal/ceres/array_utils.cc).  C++        *)
(* iterators and indices are 0-based; the sequences here are 1-based.      *)
(***************************************************************************)

\* Bounds of the array model.
MaxLen == 3
MaxValue == 3
MaxApplications == 2

\* The ints the arrays hold.
Values == (-1)..MaxValue

RECURSIVE InsertSorted(_, _)
\* s, sorted, with x put in its place.
InsertSorted(x, s) ==
  IF s = <<>> THEN <<x>>
  ELSE IF x <= Head(s) THEN <<x>> \o s
  ELSE <<Head(s)>> \o InsertSorted(x, Tail(s))

RECURSIVE Sort(_)
\* std::sort(unique_values.begin(), unique_values.end())
Sort(s) == IF s = <<>> THEN <<>> ELSE InsertSorted(Head(s), Sort(Tail(s)))

\* Variant of Unique: nothing is erased.
UniqueKeepingAll(s) == s

RECURSIVE Unique(_)
\* unique_values.erase(std::unique(...), unique_values.end()): of every run
\* of equal adjacent elements the first is kept.
Unique(s) ==
  IF Len(s) <= 1 THEN s
  ELSE IF s[1] = s[2] THEN Unique(Tail(s))
  ELSE <<Head(s)>> \o Unique(Tail(s))

RECURSIVE LowerBound(_, _)
\* std::lower_bound(begin, end, x) - begin: the 0-based index of the first
\* element that is not less than x, the length if there is none.
LowerBound(s, x) ==
  IF s = <<>> THEN 0
  ELSE IF ~(Head(s) < x) THEN 0
  ELSE 1 + LowerBound(Tail(s), x)

MapValuesToContiguousRange(a) ==
  LET unique_values == Unique(Sort(a))
  IN  [i \in 1..Len(a) |-> LowerBound(unique_values, a[i])]

ArrayInit ==
  /\ \E size \in 0..MaxLen : array \in SeqsOver(Values, size)
  /\ source = array
  /\ applications = 0
  /\ call = NoCall
  /\ ev = NoEv
  /\ session = NoSession
  /\ EngineAside

\* MapValuesToContiguousRange(size, array), on the result of the previous
\* application if there was one.
Apply ==
  /\ applications < MaxApplications
  /\ array' = MapValuesToContiguousRange(array)
  /\ applications' = applications + 1
  /\ UNCHANGED <<source, call, ev, session, engines, functors>>

ArrayNext == Apply

ArraySpec == ArrayInit /\ [][ArrayNext]_vars

\* The distinct values of an array.
ValuesOf(a) == {a[i] : i \in 1..Len(a)}

\* C19: MapValuesToContiguousRange replaces every element by the rank of its
\* value among the distinct values of the input: the values afterwards are
\* exactly 0..k-1 for k distinct input values, the outputs compare (<, =, >)
\* as the inputs did, and a second application changes nothing.
C19_RanksOfValues ==
  (applications >= 1)
    => /\ Len(array) = Len(source)
       /\ \A i \in 1..Len(source) :
            array[i] = Cardinality({v \in ValuesOf(source) : v < source[i]})
       /\ ValuesOf(array) = 0..(Cardinality(ValuesOf(source)) - 1)
       /\ \A i, j \in 1..Len(source) :
            /\ (array[i] < array[j]) <=> (source[i] < source[j])
            /\ (array[i] = array[j]) <=> (source[i] = source[j])
       /\ MapValuesToContiguousRange(array) = array

\* Applied twice to an array with a repeated value, a gap between its values
\* and a negative value.
C19_Witness ==
  /\ applications = 2
  /\ Len(source) = 3
  /\ source[1] = source[3]
  /\ source[2] < 0
  /\ source[1] > 1
  /\ array = <<1, 0, 1>>

====
